---- MODULE Spec2Model ----
(***************************************************************************)
(* MediTracker Pro (src/app4.py): the MedicationTracker store, its JSON    *)
(* document on disk, and the Streamlit handlers that mutate the store.     *)
(*                                                                         *)
(* Python values are modelled untagged (str -> string, int -> integer,     *)
(* bool -> BOOLEAN, list -> sequence, dict -> function); the JSON text in  *)
(* the file is modelled as a tree of tagged nodes, so json.dump and        *)
(* json.load are two different conversions.  str(uuid.uuid4()) is a fresh  *)
(* number, datetime.now() reads a wall clock counted in days that the      *)
(* environment may set forward or back, and an ISO-8601 string is a        *)
(* wrapped day.                                                            *)
(***************************************************************************)
EXTENDS Integers, Sequences, FiniteSets, TLC

VARIABLES
    tracker,        \* st.session_state.tracker: the four in-memory collections
    disk,           \* content of medication_data.json
    session_state,  \* the confirm_delete_* keys present in st.session_state
    uuid_count,     \* number of uuid4 values drawn so far
    last,           \* the last store call: operation, id argument, return value
    clock,          \* the wall clock datetime.now() reads, in days
    hist,           \* the last two calls, each with the record it found (history)
    page,           \* the page the sidebar selectbox returned in the last run
    quick_action,   \* st.session_state.quick_action: << >> while the key is absent
    peer            \* the tracker of a second session over the same file

vars ==
    <<tracker, disk, session_state, uuid_count, last, clock, hist, page,
      quick_action, peer>>

----------------------------------------------------------------------------
(* Bounds of the model *)

MaxUuid == 3
MaxFresh == 1

(* Inputs *)

Dosages == {"100mg"}
Schedules == {<<"08:00", "20:00">>}
NoteTexts == {""}
Effects == {"Headache"}
MoodScores == {5}

(* Program constants *)

MinSeverity == 1
MaxSeverity == 5
PurgeDays == 365
data_file == "medication_data.json"
SeverityOptions == MinSeverity..MaxSeverity
ArchiveReasons ==
    {"", "Course completed", "Medication changed", "Side effects",
     "Doctor's instruction", "Other"}

----------------------------------------------------------------------------
(* datetime <-> ISO-8601 string *)

isoformat(t) == [iso |-> t]
fromisoformat(s) == s.iso

(* JSON text *)

JStr(s) == [t |-> "string", v |-> s]
JNum(n) == [t |-> "number", v |-> n]
JBool(b) == [t |-> "bool", v |-> b]
JArr(a) == [t |-> "array", v |-> a]
JObj(o) == [t |-> "object", v |-> o]

(* json.dump(..., default=str) of the values the store holds *)
DumpField(k, x) ==
    IF k = "active" THEN JBool(x)
    ELSE IF k \in {"severity", "mood_score"} THEN JNum(x)
    ELSE IF k = "times" THEN JArr([i \in DOMAIN x |-> JStr(x[i])])
    ELSE JStr(x)

DumpRecord(r) == JObj([k \in DOMAIN r |-> DumpField(k, r[k])])

DumpDict(d) == JObj([i \in DOMAIN d |-> DumpRecord(d[i])])

DumpList(l) == JArr([i \in DOMAIN l |-> DumpRecord(l[i])])

(* json.load: the value a JSON node denotes *)
RECURSIVE json_load(_)
json_load(j) ==
    IF j.t \in {"array", "object"}
    THEN [i \in DOMAIN j.v |-> json_load(j.v[i])]
    ELSE j.v

----------------------------------------------------------------------------
(* The file: absent, unreadable/unparsable, or JSON text *)

NoFile == [kind |-> "absent"]
BadFile == [kind |-> "garbage"]
JsonFile(j) == [kind |-> "json", text |-> j]

initialize_empty_data ==
    [medications |-> << >>, logs |-> << >>, mood_logs |-> << >>,
     side_effects |-> << >>]

DictGet(d, k, default) == IF k \in DOMAIN d THEN d[k] ELSE default

(* load_data indexing data['...'] instead of data.get: a missing key raises
   and the except clause empties everything *)
load_data_indexing(file) ==
    IF file.kind = "json" /\ file.text.t = "object"
        /\ {"medications", "logs", "mood_logs", "side_effects"}
                \subseteq DOMAIN file.text.v
    THEN json_load(file.text)
    ELSE initialize_empty_data

(* MedicationTracker.load_data: the collections after construction *)
load_data(file) ==
    IF file.kind = "json" /\ file.text.t = "object"
    THEN LET data == json_load(file.text)
         IN [medications |-> DictGet(data, "medications", << >>),
             logs |-> DictGet(data, "logs", << >>),
             mood_logs |-> DictGet(data, "mood_logs", << >>),
             side_effects |-> DictGet(data, "side_effects", << >>)]
    ELSE initialize_empty_data

(* save_data that leaves side_effects out of the document *)
save_data_without_side_effects(tr) ==
    JsonFile(JObj([medications |-> DumpDict(tr.medications),
                   logs |-> JArr(tr.logs),
                   mood_logs |-> DumpList(tr.mood_logs)]))

(* MedicationTracker.save_data: the file after the full-document overwrite.
   No operation appends to logs, so it holds plain values only. *)
save_data(tr) ==
    JsonFile(JObj([medications |-> DumpDict(tr.medications),
                   logs |-> JArr(tr.logs),
                   mood_logs |-> DumpList(tr.mood_logs),
                   side_effects |-> DumpList(tr.side_effects)]))

----------------------------------------------------------------------------
(* The store operations.  Each yields the tracker and the file after the
   call, and the value returned. *)

Result(tr, file, r) == [tracker |-> tr, disk |-> file, ret |-> r]

Saved(tr, r) == Result(tr, save_data(tr), r)

(* d[k] = v on a dict *)
DictSet(d, k, v) == [i \in DOMAIN d \cup {k} |-> IF i = k THEN v ELSE d[i]]

(* del d[k] *)
DictDel(d, k) == [i \in DOMAIN d \ {k} |-> d[i]]

(* add_medication that writes the file before it stores the medication *)
add_medication_saves_first(tr, med_id, name, dosage, frequency, times, notes, now) ==
    LET med == [name |-> name, dosage |-> dosage, frequency |-> frequency,
                times |-> times, notes |-> notes,
                created_date |-> isoformat(now), active |-> TRUE]
        tr2 == [tr EXCEPT !.medications = DictSet(@, med_id, med)]
    IN Result(tr2, save_data(tr), "med_id")

add_medication(tr, med_id, name, dosage, frequency, times, notes, now) ==
    LET med == [name |-> name, dosage |-> dosage, frequency |-> frequency,
                times |-> times, notes |-> notes,
                created_date |-> isoformat(now), active |-> TRUE]
        tr2 == [tr EXCEPT !.medications = DictSet(@, med_id, med)]
    IN Saved(tr2, "med_id")

log_side_effect(tr, id, med_id, effect, severity, notes, now) ==
    LET side_effect_entry ==
            [id |-> id, med_id |-> med_id, timestamp |-> isoformat(now),
             effect |-> effect, severity |-> severity, notes |-> notes]
        tr2 == [tr EXCEPT !.side_effects = Append(@, side_effect_entry)]
    IN Saved(tr2, "None")

log_mood(tr, id, mood_score, notes, now) ==
    LET mood_entry ==
            [id |-> id, timestamp |-> isoformat(now),
             mood_score |-> mood_score, notes |-> notes]
        tr2 == [tr EXCEPT !.mood_logs = Append(@, mood_entry)]
    IN Saved(tr2, "None")

(* delete_medication without its save_data() *)
delete_medication_unsaved(tr, file, med_id) ==
    IF med_id \in DOMAIN tr.medications
    THEN Result([tr EXCEPT !.medications = DictDel(@, med_id)], file, "True")
    ELSE Result(tr, file, "False")

(* delete_medication that saves before looking the id up *)
delete_medication_always_saves(tr, file, med_id) ==
    IF med_id \in DOMAIN tr.medications
    THEN Saved([tr EXCEPT !.medications = DictDel(@, med_id)], "True")
    ELSE Saved(tr, "False")

(* delete_medication that also drops the side effects of the medication *)
delete_medication_cascading(tr, file, med_id) ==
    IF med_id \in DOMAIN tr.medications
    THEN LET keep(se) == se.med_id # med_id
         IN Saved([tr EXCEPT !.medications = DictDel(@, med_id),
                             !.side_effects = SelectSeq(@, keep)], "True")
    ELSE Result(tr, file, "False")

delete_medication(tr, file, med_id) ==
    IF med_id \in DOMAIN tr.medications
    THEN Saved([tr EXCEPT !.medications = DictDel(@, med_id)], "True")
    ELSE Result(tr, file, "False")

(* archive_medication that forgets the archived_date stamp *)
archive_medication_unstamped(tr, file, med_id, reason, now) ==
    IF med_id \in DOMAIN tr.medications
    THEN LET m1 == DictSet(tr.medications[med_id], "active", FALSE)
             m3 == DictSet(m1, "archive_reason", reason)
         IN Saved([tr EXCEPT !.medications[med_id] = m3], "True")
    ELSE Result(tr, file, "False")

archive_medication(tr, file, med_id, reason, now) ==
    IF med_id \in DOMAIN tr.medications
    THEN LET m1 == DictSet(tr.medications[med_id], "active", FALSE)
             m2 == DictSet(m1, "archived_date", isoformat(now))
             m3 == DictSet(m2, "archive_reason", reason)
         IN Saved([tr EXCEPT !.medications[med_id] = m3], "True")
    ELSE Result(tr, file, "False")

(* reactivate_medication that only sets the flag *)
reactivate_medication_flag_only(tr, file, med_id) ==
    IF med_id \in DOMAIN tr.medications
    THEN LET m1 == DictSet(tr.medications[med_id], "active", TRUE)
         IN Saved([tr EXCEPT !.medications[med_id] = m1], "True")
    ELSE Result(tr, file, "False")

reactivate_medication(tr, file, med_id) ==
    IF med_id \in DOMAIN tr.medications
    THEN LET m1 == DictSet(tr.medications[med_id], "active", TRUE)
             m2 == IF "archived_date" \in DOMAIN m1
                   THEN DictDel(m1, "archived_date") ELSE m1
             m3 == IF "archive_reason" \in DOMAIN m2
                   THEN DictDel(m2, "archive_reason") ELSE m2
         IN Saved([tr EXCEPT !.medications[med_id] = m3], "True")
    ELSE Result(tr, file, "False")

(* The filters the pages use *)
active_meds(tr) == {i \in DOMAIN tr.medications : tr.medications[i].active}
archived_meds(tr) == {i \in DOMAIN tr.medications : ~tr.medications[i].active}

(* tracker.side_effects = [se for se in tracker.side_effects
                             if se['med_id'] != med_id] *)
without_med(side_effects, med_id) ==
    LET keep(se) == se.med_id # med_id
    IN SelectSeq(side_effects, keep)

(* the purge filter with > in place of >= *)
not_older_than_strict(side_effects, cutoff_date) ==
    LET keep(se) == fromisoformat(se.timestamp) > cutoff_date
    IN SelectSeq(side_effects, keep)

(* [se for se in tracker.side_effects
       if datetime.fromisoformat(se['timestamp']) >= cutoff_date] *)
not_older_than(side_effects, cutoff_date) ==
    LET keep(se) == fromisoformat(se.timestamp) >= cutoff_date
    IN SelectSeq(side_effects, keep)

----------------------------------------------------------------------------
(* Analytics: Medication Side Effect Analysis *)

RECURSIVE sum(_)
sum(l) == IF l = << >> THEN 0 ELSE Head(l) + sum(Tail(l))

(* med_info['name'] if med_info else "Unknown (Deleted)" *)
med_name_of(tr, med_id) ==
    IF med_id \in DOMAIN tr.medications
    THEN tr.medications[med_id].name
    ELSE "Unknown (Deleted)"

(* The severities appended under one key of med_analysis, in list order *)
severities_under(tr, key) ==
    LET hit(se) == med_name_of(tr, se.med_id) = key
        hits == SelectSeq(tr.side_effects, hit)
    IN [i \in DOMAIN hits |-> hits[i].severity]

(* med_analysis after both loops; the quotient sum / len is kept exact as
   numerator and denominator *)
med_analysis(tr) ==
    LET keys == {med_name_of(tr, tr.side_effects[i].med_id) :
                    i \in DOMAIN tr.side_effects}
    IN [key \in keys |->
            LET severities == severities_under(tr, key)
            IN [total_effects |-> Len(severities),
                avg_severity |-> [num |-> sum(severities),
                                  den |-> Len(severities)],
                severities |-> severities]]

----------------------------------------------------------------------------
(* Documents a first run may find: none, an unreadable one, JSON that is not
   an object, an object without keys, and a document an earlier process
   saved (medication 0 with one side effect and one mood entry), whole or
   with one key missing. *)

PriorTracker ==
    [medications |->
        (0 :> [name |-> "Aspirin", dosage |-> "100mg",
                      frequency |-> "2 times daily",
                      times |-> <<"08:00", "20:00">>, notes |-> "",
                      created_date |-> isoformat(0), active |-> TRUE]),
     logs |-> << >>,
     mood_logs |-> <<[id |-> -2, timestamp |-> isoformat(0),
                      mood_score |-> 5, notes |-> ""]>>,
     side_effects |-> <<[id |-> -1, med_id |-> 0,
                         timestamp |-> isoformat(0 - PurgeDays - 1),
                         effect |-> "Headache",
                         severity |-> 3, notes |-> ""]>>]

DocumentKeys == {"medications", "logs", "mood_logs", "side_effects"}

WithoutKey(file, k) ==
    JsonFile(JObj([j \in DOMAIN file.text.v \ {k} |-> file.text.v[j]]))

InitDocs ==
    {NoFile, BadFile, JsonFile(JArr(<< >>)), JsonFile(JObj(<< >>)),
     save_data(PriorTracker)}
    \cup {WithoutKey(save_data(PriorTracker), k) : k \in DocumentKeys}

NoCall == [op |-> "__init__", id |-> 0, ret |-> "None", count |-> 0]

(* if 'tracker' not in st.session_state:
       st.session_state.tracker = MedicationTracker() *)
Start(docs) ==
    /\ disk \in docs
    /\ tracker = load_data(disk)
    /\ session_state = {}
    /\ uuid_count = 0
    /\ last = NoCall
    /\ clock = 0
    /\ hist = << >>
    /\ page = "Dashboard"
    /\ quick_action = << >>
    /\ peer = load_data(disk)

----------------------------------------------------------------------------
(* Steps.  A step is a direct call of a store operation or one run of the
   script that handles a pressed button. *)

Called(op, id, r, n) ==
    /\ tracker' = r.tracker
    /\ disk' = r.disk
    /\ last' = [op |-> op, id |-> id, ret |-> r.ret, count |-> n]

(* str(uuid.uuid4()) *)
uuid4 == uuid_count + 1

(* A direct caller passes an id drawn earlier (med_id <= uuid_count) or 0,
   which this process never draws. *)

CallAddMedication(names) ==
    \E name \in names, dosage \in Dosages, times \in Schedules,
       notes \in NoteTexts :
        /\ uuid_count < MaxUuid
        /\ Called("add_medication", uuid4,
                  add_medication(tracker, uuid4, name, dosage,
                                 "2 times daily", times, notes, clock), 0)
        /\ uuid_count' = uuid4
        /\ UNCHANGED <<session_state, clock>>

CallLogSideEffect(med_ids, severities) ==
    \E med_id \in med_ids, effect \in Effects, severity \in severities,
       notes \in NoteTexts :
        /\ uuid_count < MaxUuid
        /\ med_id <= uuid_count
        /\ Called("log_side_effect", med_id,
                  log_side_effect(tracker, uuid4, med_id, effect, severity,
                                  notes, clock), 0)
        /\ uuid_count' = uuid4
        /\ UNCHANGED <<session_state, clock>>

CallLogMood ==
    \E mood_score \in MoodScores, notes \in NoteTexts :
        /\ uuid_count < MaxUuid
        /\ Called("log_mood", 0,
                  log_mood(tracker, uuid4, mood_score, notes, clock), 0)
        /\ uuid_count' = uuid4
        /\ UNCHANGED <<session_state, clock>>

CallDeleteMedication(med_ids) ==
    \E med_id \in med_ids :
        /\ med_id <= uuid_count
        /\ Called("delete_medication", med_id,
                  delete_medication(tracker, disk, med_id), 0)
        /\ UNCHANGED <<session_state, uuid_count, clock>>

CallArchiveMedication(med_ids, reasons) ==
    \E med_id \in med_ids, reason \in reasons :
        /\ med_id <= uuid_count
        /\ Called("archive_medication", med_id,
                  archive_medication(tracker, disk, med_id, reason, clock), 0)
        /\ UNCHANGED <<session_state, uuid_count, clock>>

CallReactivateMedication(med_ids) ==
    \E med_id \in med_ids :
        /\ med_id <= uuid_count
        /\ Called("reactivate_medication", med_id,
                  reactivate_medication(tracker, disk, med_id), 0)
        /\ UNCHANGED <<session_state, uuid_count, clock>>

(* The Manage Medications page.  A run handles one pressed button; the
   buttons of a medication exist only in the tab that lists it, and the
   Confirm and Cancel buttons only while its flag is in session_state. *)

confirm_delete(med_id) == <<"confirm_delete", med_id>>
confirm_delete_arch(med_id) == <<"confirm_delete_arch", med_id>>

PressDelete ==
    \E med_id \in active_meds(tracker) :
        /\ session_state' = session_state \cup {confirm_delete(med_id)}
        /\ UNCHANGED <<tracker, disk, uuid_count, last, clock>>

ConfirmDelete ==
    \E med_id \in active_meds(tracker) :
        /\ confirm_delete(med_id) \in session_state
        /\ LET purged == [tracker EXCEPT
                             !.side_effects = without_med(@, med_id)]
           IN Called("delete_medication", med_id,
                     delete_medication(purged, disk, med_id), 0)
        /\ session_state' = session_state \ {confirm_delete(med_id)}
        /\ UNCHANGED <<uuid_count, clock>>

CancelDelete ==
    \E med_id \in active_meds(tracker) :
        /\ confirm_delete(med_id) \in session_state
        /\ session_state' = session_state \ {confirm_delete(med_id)}
        /\ UNCHANGED <<tracker, disk, uuid_count, last, clock>>

PressDeleteArch ==
    \E med_id \in archived_meds(tracker) :
        /\ session_state' = session_state \cup {confirm_delete_arch(med_id)}
        /\ UNCHANGED <<tracker, disk, uuid_count, last, clock>>

(* Confirm of the Archived tab shown without looking at the flag *)
ConfirmDeleteArch_unflagged ==
    \E med_id \in archived_meds(tracker) :
        /\ LET purged == [tracker EXCEPT
                             !.side_effects = without_med(@, med_id)]
           IN Called("delete_medication", med_id,
                     delete_medication(purged, disk, med_id), 0)
        /\ session_state' = session_state \ {confirm_delete_arch(med_id)}
        /\ UNCHANGED <<uuid_count, clock>>

(* Confirm of the Archived tab without the purge of the side effects *)
ConfirmDeleteArch_unpurged ==
    \E med_id \in archived_meds(tracker) :
        /\ confirm_delete_arch(med_id) \in session_state
        /\ Called("delete_medication", med_id,
                  delete_medication(tracker, disk, med_id), 0)
        /\ session_state' = session_state \ {confirm_delete_arch(med_id)}
        /\ UNCHANGED <<uuid_count, clock>>

ConfirmDeleteArch ==
    \E med_id \in archived_meds(tracker) :
        /\ confirm_delete_arch(med_id) \in session_state
        /\ LET purged == [tracker EXCEPT
                             !.side_effects = without_med(@, med_id)]
           IN Called("delete_medication", med_id,
                     delete_medication(purged, disk, med_id), 0)
        /\ session_state' = session_state \ {confirm_delete_arch(med_id)}
        /\ UNCHANGED <<uuid_count, clock>>

CancelDeleteArch ==
    \E med_id \in archived_meds(tracker) :
        /\ confirm_delete_arch(med_id) \in session_state
        /\ session_state' = session_state \ {confirm_delete_arch(med_id)}
        /\ UNCHANGED <<tracker, disk, uuid_count, last, clock>>

(* Bulk Actions: Clean Old Data *)
CleanOldData ==
    LET cutoff_date == clock - PurgeDays
        original_side_effect_count == Len(tracker.side_effects)
        cleaned == [tracker EXCEPT
                       !.side_effects = not_older_than(@, cutoff_date)]
        se_removed == original_side_effect_count - Len(cleaned.side_effects)
    IN /\ Called("clean_old_data", 0, Saved(cleaned, "None"), se_removed)
       /\ UNCHANGED <<session_state, uuid_count, clock>>

(* A new session of the app: session state starts empty and the tracker is
   constructed from the file *)
NewSession ==
    /\ tracker' = load_data(disk)
    /\ session_state' = {}
    /\ last' = NoCall
    /\ UNCHANGED <<disk, uuid_count, clock>>

(* A second session of the app has its own st.session_state.tracker, here
   peer, constructed from the same file; its operations are the same code
   run on peer, and both sessions write the one data_file. *)
PeerCalled(r) ==
    /\ peer' = r.tracker
    /\ disk' = r.disk
    /\ UNCHANGED <<tracker, session_state, last, clock, hist, page,
                   quick_action>>

PeerAddMedication(names) ==
    \E name \in names, dosage \in Dosages, times \in Schedules,
       notes \in NoteTexts :
        /\ uuid_count < MaxUuid
        /\ PeerCalled(add_medication(peer, uuid4, name, dosage,
                                     "2 times daily", times, notes, clock))
        /\ uuid_count' = uuid4

PeerLogSideEffect(severities) ==
    \E med_id \in DOMAIN peer.medications, effect \in Effects,
       severity \in severities, notes \in NoteTexts :
        /\ uuid_count < MaxUuid
        /\ PeerCalled(log_side_effect(peer, uuid4, med_id, effect, severity,
                                      notes, clock))
        /\ uuid_count' = uuid4

PeerDeleteMedication ==
    \E med_id \in DOMAIN peer.medications :
        /\ PeerCalled(delete_medication(peer, disk, med_id))
        /\ UNCHANGED uuid_count

(* The Manage Medications page, Active and Archived tabs: Archive needs a
   reason chosen in the selectbox, Reactivate needs nothing *)
PressArchive(reasons) ==
    \E archive_reason \in reasons :
        /\ archive_reason # ""
        /\ CallArchiveMedication(active_meds(tracker), {archive_reason})

PressReactivate == CallReactivateMedication(archived_meds(tracker))

(* The Add Medication form: name and dosage must be filled in *)
SubmitAddMedication(names) ==
    CallAddMedication({med_name \in names : med_name # ""})

(* The Side Effects page: f"{med['name']} ({med['dosage']})" *)
option_label(med) == <<med.name, med.dosage>>

(* med_options_map: a dict comprehension over active_meds.items(); of two
   medications with one label the later one (the later id) stays *)
med_options_map(tr) ==
    LET labels == {option_label(tr.medications[i]) : i \in active_meds(tr)}
        under(label) ==
            {i \in active_meds(tr) : option_label(tr.medications[i]) = label}
    IN [label \in labels |->
            CHOOSE i \in under(label) : \A j \in under(label) : j <= i]

(* The side_effect_log form: the slider offers the severities 1..5 *)
SubmitSideEffect(severities) ==
    \E selected_med_display \in DOMAIN med_options_map(tracker) :
        LET selected_med_id ==
                med_options_map(tracker)[selected_med_display]
        IN CallLogSideEffect({selected_med_id},
                             severities \cap SeverityOptions)

(* page_options with the Analytics page offered *)
page_options_with_analytics ==
    <<"Dashboard", "Add Medication", "Manage Medications", "Side Effects",
      "Analytics">>

(* Page selection *)
page_options ==
    <<"Dashboard", "Add Medication", "Manage Medications", "Side Effects">>

(* default_page of a run that finds quick_action qa in session state *)
default_page(qa) ==
    IF qa # << >>
    THEN IF qa[1] = "side_effect" THEN "Side Effects" ELSE "Dashboard"
    ELSE "Dashboard"

(* page_options.index(default_page), 0 on ValueError; counted from 1 *)
default_index(p) ==
    IF \E i \in DOMAIN page_options : page_options[i] = p
    THEN CHOOSE i \in DOMAIN page_options : page_options[i] = p
    ELSE 1

(* A run shows a page only when no quick action is pending: the run after
   st.rerun() consumes it first *)
OnPage(p) == page = p /\ quick_action = << >>

(* The user picks a page in the sidebar selectbox *)
SelectPage ==
    /\ quick_action = << >>
    /\ page' \in {page_options[i] : i \in DOMAIN page_options} \ {page}
    /\ UNCHANGED <<tracker, disk, session_state, uuid_count, last, clock,
                   quick_action>>

(* Dashboard: Report Side Effect sets the flag and calls st.rerun() *)
PressReportSideEffect ==
    /\ OnPage("Dashboard")
    /\ quick_action' = <<"side_effect">>
    /\ UNCHANGED <<tracker, disk, session_state, uuid_count, last, clock,
                   page>>

(* The run that finds quick_action: it computes the default page, deletes
   the key, and the selectbox returns the option at default_index or the
   selection it has kept *)
RerunQuickAction ==
    /\ quick_action # << >>
    /\ page' \in {page_options[default_index(default_page(quick_action))],
                  page}
    /\ quick_action' = << >>
    /\ UNCHANGED <<tracker, disk, session_state, uuid_count, last, clock>>

(* The environment sets the wall clock *)
Tick(days) ==
    /\ clock' \in days \ {clock}
    /\ UNCHANGED <<tracker, disk, session_state, uuid_count, last>>

----------------------------------------------------------------------------
(* Spec: the store called directly, from an empty store, with any
   arguments: known and unknown ids, severities inside and outside the
   form's range, two medications that may share a name. *)

Ids == 0..MaxUuid
Names == {"Aspirin", "Ibuprofen"}
OneName == {"Aspirin"}
CallSeverities == {3, 7}
OneReason == {"Other"}

Init == Start({NoFile})

Next ==
    \/ CallAddMedication(Names) /\ UNCHANGED <<hist, page, quick_action, peer>>
    \/ CallLogSideEffect(Ids, CallSeverities) /\ UNCHANGED <<hist, page, quick_action, peer>>
    \/ CallLogMood /\ UNCHANGED <<hist, page, quick_action, peer>>
    \/ CallDeleteMedication(Ids) /\ UNCHANGED <<hist, page, quick_action, peer>>
    \/ CallArchiveMedication(Ids, OneReason) /\ UNCHANGED <<hist, page, quick_action, peer>>
    \/ CallReactivateMedication(Ids) /\ UNCHANGED <<hist, page, quick_action, peer>>

Spec == Init /\ [][Next]_vars

----------------------------------------------------------------------------
(* SpecLifecycle: every sequence of add, archive, reactivate and delete
   from an empty store, remembering the last two calls and the record each
   of them found under its id. *)

(* medications.get(med_id) as a list of no or one record *)
Found(medications, med_id) ==
    IF med_id \in DOMAIN medications THEN <<medications[med_id]>> ELSE << >>

Remember ==
    hist' = SubSeq(<<[call |-> last',
                      before |-> Found(tracker.medications, last'.id)]>>
                   \o hist, 1, IF hist = << >> THEN 1 ELSE 2)

NextLifecycle ==
    \/ CallAddMedication(OneName) /\ Remember
            /\ UNCHANGED <<page, quick_action, peer>>
    \/ CallDeleteMedication(Ids) /\ Remember
            /\ UNCHANGED <<page, quick_action, peer>>
    \/ CallArchiveMedication(Ids, OneReason) /\ Remember
            /\ UNCHANGED <<page, quick_action, peer>>
    \/ CallReactivateMedication(Ids) /\ Remember
            /\ UNCHANGED <<page, quick_action, peer>>

SpecLifecycle == Init /\ [][NextLifecycle]_vars

----------------------------------------------------------------------------
(* SpecPersist: one session after another over the same file.  The first
   finds no file or the one an earlier process saved; every step that
   changes the store is there, the page's handlers included, on the
   medications the store holds, with at most MaxFresh new records.  The side
   effect of the earlier document is more than a year old. *)

OneSeverity == {3}

InitPersist == Start({NoFile, save_data(PriorTracker)})

Known == DOMAIN tracker.medications

NextPersist ==
    \/ uuid_count < MaxFresh /\ CallAddMedication(OneName)
            /\ UNCHANGED <<hist, page, quick_action, peer>>
    \/ uuid_count < MaxFresh /\ CallLogSideEffect(Known, OneSeverity)
            /\ UNCHANGED <<hist, page, quick_action, peer>>
    \/ uuid_count < MaxFresh /\ CallLogMood /\ UNCHANGED <<hist, page, quick_action, peer>>
    \/ CallDeleteMedication(Known) /\ UNCHANGED <<hist, page, quick_action, peer>>
    \/ CallArchiveMedication(Known, OneReason) /\ UNCHANGED <<hist, page, quick_action, peer>>
    \/ CallReactivateMedication(Known) /\ UNCHANGED <<hist, page, quick_action, peer>>
    \/ PressDelete /\ UNCHANGED <<hist, page, quick_action, peer>>
    \/ ConfirmDelete /\ UNCHANGED <<hist, page, quick_action, peer>>
    \/ CancelDelete /\ UNCHANGED <<hist, page, quick_action, peer>>
    \/ PressDeleteArch /\ UNCHANGED <<hist, page, quick_action, peer>>
    \/ ConfirmDeleteArch /\ UNCHANGED <<hist, page, quick_action, peer>>
    \/ CancelDeleteArch /\ UNCHANGED <<hist, page, quick_action, peer>>
    \/ CleanOldData /\ UNCHANGED <<hist, page, quick_action, peer>>
    \/ NewSession /\ UNCHANGED <<hist, page, quick_action, peer>>

SpecPersist == InitPersist /\ [][NextPersist]_vars

----------------------------------------------------------------------------
(* SpecLoad: construction of the tracker over every document of InitDocs,
   again after the store has written the file. *)

InitLoad == Start(InitDocs)

NextLoad ==
    \/ CallAddMedication(OneName) /\ UNCHANGED <<hist, page, quick_action, peer>>
    \/ CallLogSideEffect(Ids, OneSeverity) /\ UNCHANGED <<hist, page, quick_action, peer>>
    \/ CallLogMood /\ UNCHANGED <<hist, page, quick_action, peer>>
    \/ NewSession /\ UNCHANGED <<hist, page, quick_action, peer>>

SpecLoad == InitLoad /\ [][NextLoad]_vars

----------------------------------------------------------------------------
(* SpecPurge: side effects logged on days before, at and after the purge
   cutoff, in any order of days, and cleaned on any of those days. *)

CutoffDays == {0, 1, PurgeDays + 1}

NextPurge ==
    \/ CallAddMedication(OneName) /\ UNCHANGED <<hist, page, quick_action, peer>>
    \/ CallLogSideEffect(Ids, OneSeverity) /\ UNCHANGED <<hist, page, quick_action, peer>>
    \/ CallLogMood /\ UNCHANGED <<hist, page, quick_action, peer>>
    \/ CleanOldData /\ UNCHANGED <<hist, page, quick_action, peer>>
    \/ Tick(CutoffDays) /\ UNCHANGED <<hist, page, quick_action, peer>>

SpecPurge == Init /\ [][NextPurge]_vars

----------------------------------------------------------------------------
(* SpecPage: one session driven through the pages only.  It starts without
   a file or with the one an earlier process saved; its first MaxFresh
   records are medications or side effects, the one after them is a side
   effect. *)

Manage == "Manage Medications"

NextPage ==
    \/ SelectPage /\ UNCHANGED <<hist, peer>>
    \/ PressReportSideEffect /\ UNCHANGED <<hist, peer>>
    \/ RerunQuickAction /\ UNCHANGED <<hist, peer>>
    \/ OnPage("Add Medication") /\ uuid_count < MaxFresh
            /\ SubmitAddMedication(OneName)
            /\ UNCHANGED <<hist, page, quick_action, peer>>
    \/ OnPage("Side Effects") /\ uuid_count <= MaxFresh
            /\ SubmitSideEffect(OneSeverity)
            /\ UNCHANGED <<hist, page, quick_action, peer>>
    \/ OnPage(Manage) /\ PressArchive(OneReason)
            /\ UNCHANGED <<hist, page, quick_action, peer>>
    \/ OnPage(Manage) /\ PressReactivate
            /\ UNCHANGED <<hist, page, quick_action, peer>>
    \/ OnPage(Manage) /\ PressDelete
            /\ UNCHANGED <<hist, page, quick_action, peer>>
    \/ OnPage(Manage) /\ ConfirmDelete
            /\ UNCHANGED <<hist, page, quick_action, peer>>
    \/ OnPage(Manage) /\ CancelDelete
            /\ UNCHANGED <<hist, page, quick_action, peer>>
    \/ OnPage(Manage) /\ PressDeleteArch
            /\ UNCHANGED <<hist, page, quick_action, peer>>
    \/ OnPage(Manage) /\ ConfirmDeleteArch
            /\ UNCHANGED <<hist, page, quick_action, peer>>
    \/ OnPage(Manage) /\ CancelDeleteArch
            /\ UNCHANGED <<hist, page, quick_action, peer>>
    \/ OnPage(Manage) /\ CleanOldData
            /\ UNCHANGED <<hist, page, quick_action, peer>>

SpecPage == InitPersist /\ [][NextPage]_vars

----------------------------------------------------------------------------
(* SpecSessions: two sessions that constructed their trackers from the same
   file and stay open; each adds, logs and deletes through its own tracker,
   in any interleaving. *)

NextSessions ==
    \/ uuid_count <= MaxFresh /\ CallAddMedication(OneName)
            /\ UNCHANGED <<hist, page, quick_action, peer>>
    \/ uuid_count <= MaxFresh /\ CallLogSideEffect(Known, OneSeverity)
            /\ UNCHANGED <<hist, page, quick_action, peer>>
    \/ CallDeleteMedication(Known)
            /\ UNCHANGED <<hist, page, quick_action, peer>>
    \/ uuid_count <= MaxFresh /\ PeerAddMedication(OneName)
    \/ uuid_count <= MaxFresh /\ PeerLogSideEffect(OneSeverity)
    \/ PeerDeleteMedication

SpecSessions == InitPersist /\ [][NextSessions]_vars

----------------------------------------------------------------------------
(* Properties of persistence *)

MutatingOps ==
    {"add_medication", "log_side_effect", "log_mood", "archive_medication",
     "reactivate_medication", "delete_medication", "clean_old_data"}

StoredKeys == {"medications", "mood_logs", "side_effects"}

(* C1: after every completed mutating action of a session (the store
   operations on known ids, the page's confirmed deletes, Clean Old Data)
   the medications, mood_logs and side_effects of the file equal the
   in-memory collections. *)
C1_WriteThrough ==
    (last.op \in MutatingOps /\ last.ret # "False") =>
        /\ disk.kind = "json"
        /\ disk.text.t = "object"
        /\ StoredKeys \subseteq DOMAIN disk.text.v
        /\ \A key \in StoredKeys :
                json_load(disk.text.v[key]) = tracker[key]

(* A delete has completed in a store that holds mood entries and no side
   effect any more: the confirmed delete of the page purged them first. *)
C1_Witness ==
    /\ last.op = "delete_medication"
    /\ last.ret = "True"
    /\ tracker.side_effects = << >>
    /\ tracker.mood_logs # << >>
    /\ 0 \notin DOMAIN tracker.medications

(* C2: in every state of the store, save_data followed by load_data in a
   fresh tracker yields the same medications, side_effects and mood_logs:
   same ids, same fields, same order. *)
C2_RoundTrip ==
    LET fresh == load_data(save_data(tracker))
    IN /\ fresh.medications = tracker.medications
       /\ fresh.side_effects = tracker.side_effects
       /\ fresh.mood_logs = tracker.mood_logs

(* The store holds an archived medication (with its optional fields), a
   side effect and a mood entry. *)
C2_Witness ==
    /\ archived_meds(tracker) # {}
    /\ tracker.side_effects # << >>
    /\ tracker.mood_logs # << >>

(* C3: construction never fails: without a file, or with one that cannot
   be read or parsed, the four collections are empty; otherwise each
   collection is the document's value for its key, and empty when the
   document has no such key. *)
C3_LoadNeverFails ==
    last.op = "__init__" =>
        /\ disk.kind \in {"absent", "garbage"}
                => tracker = initialize_empty_data
        /\ disk.kind = "json" =>
                \A key \in DocumentKeys :
                    IF disk.text.t = "object" /\ key \in DOMAIN disk.text.v
                    THEN tracker[key] = json_load(disk.text.v[key])
                    ELSE tracker[key] = << >>

(* A tracker was constructed from a document that lacks mood_logs and
   holds a medication. *)
C3_Witness ==
    /\ last.op = "__init__"
    /\ disk.kind = "json"
    /\ disk.text.t = "object"
    /\ "mood_logs" \notin DOMAIN disk.text.v
    /\ tracker.medications # << >>
    /\ tracker.mood_logs = << >>

----------------------------------------------------------------------------
(* Properties of the purge (SpecPurge) *)

Entries(l) == {l[i] : i \in DOMAIN l}

(* C8: Clean Old Data removes exactly the side effects whose timestamp is
   earlier than now - 365 days and keeps the others in their order,
   whatever the order of the list; the count it reports is the number of
   entries removed; medications and mood_logs stay as they were. *)
C8_PurgeRemovesExactlyOld ==
    [][(last'.op = "clean_old_data" /\ clock' = clock) =>
        LET before == tracker.side_effects
            after == tracker'.side_effects
            old(se) == fromisoformat(se.timestamp) < clock - PurgeDays
            kept(se) == se \in Entries(after)
        IN /\ Entries(after) = {se \in Entries(before) : ~old(se)}
           /\ after = SelectSeq(before, kept)
           /\ last'.count = Cardinality({i \in DOMAIN before : old(before[i])})
           /\ tracker'.medications = tracker.medications
           /\ tracker'.mood_logs = tracker.mood_logs]_vars

(* A purge removed one entry and kept two, the first of which is younger
   than the second: the list was not in order of time. *)
C8_Witness ==
    /\ last.op = "clean_old_data"
    /\ last.count = 1
    /\ Len(tracker.side_effects) = 2
    /\ fromisoformat(tracker.side_effects[1].timestamp)
        > fromisoformat(tracker.side_effects[2].timestamp)

----------------------------------------------------------------------------
(* Properties of the store operations *)

IdOps == {"archive_medication", "reactivate_medication", "delete_medication"}

(* C4: archive_medication, reactivate_medication and delete_medication
   called with an id that is not a key of medications return False, leave
   every in-memory collection as it was and do not write the file. *)
C4_NotFoundIsNoOp ==
    [][(last'.op \in IdOps /\ last'.id \notin DOMAIN tracker.medications)
        => /\ last'.ret = "False"
           /\ tracker' = tracker
           /\ disk' = disk]_vars

(* An unknown id was refused before any call had written the file: the file
   is still absent. *)
C4_Witness ==
    /\ last.op \in IdOps
    /\ last.ret = "False"
    /\ last.id \notin DOMAIN tracker.medications
    /\ disk = NoFile

(* C5: delete_medication on a known id returns True and removes exactly
   that medication; the other medications, every side-effect entry (those
   of the deleted id too) and every mood entry stay as they were. *)
C5_DeleteRemovesExactlyOne ==
    [][(last'.op = "delete_medication"
            /\ last'.id \in DOMAIN tracker.medications)
        => /\ last'.ret = "True"
           /\ DOMAIN tracker'.medications
                = DOMAIN tracker.medications \ {last'.id}
           /\ \A i \in DOMAIN tracker'.medications :
                tracker'.medications[i] = tracker.medications[i]
           /\ tracker'.side_effects = tracker.side_effects
           /\ tracker'.mood_logs = tracker.mood_logs
           /\ tracker'.logs = tracker.logs]_vars

(* A medication was deleted, another one is still there, and a side effect
   of the deleted one remains as an orphan. *)
C5_Witness ==
    /\ last.op = "delete_medication"
    /\ last.ret = "True"
    /\ tracker.medications # << >>
    /\ \E i \in DOMAIN tracker.side_effects :
            tracker.side_effects[i].med_id = last.id

----------------------------------------------------------------------------
(* Properties of the archive lifecycle (SpecLifecycle) *)

ArchiveFields == {"archived_date", "archive_reason"}

(* The last call was a successful archive_medication *)
JustArchived ==
    /\ hist # << >>
    /\ hist[1].call.op = "archive_medication"
    /\ hist[1].before # << >>

(* The last two calls were a successful archive_medication and a
   reactivate_medication of the same id *)
JustReactivatedAfterArchive ==
    /\ Len(hist) = 2
    /\ hist[2].call.op = "archive_medication"
    /\ hist[2].before # << >>
    /\ hist[1].call.op = "reactivate_medication"
    /\ hist[1].call.id = hist[2].call.id

AfterArchive ==
    JustArchived =>
        LET med_id == hist[1].call.id
            med == tracker.medications[med_id]
        IN /\ hist[1].call.ret = "True"
           /\ med.active = FALSE
           /\ ArchiveFields \subseteq DOMAIN med
           /\ med.archived_date = isoformat(clock)
           /\ med.archive_reason \in OneReason
           /\ med_id \notin active_meds(tracker)
           /\ med_id \in archived_meds(tracker)

AfterReactivate ==
    JustReactivatedAfterArchive =>
        LET med_id == hist[1].call.id
            med == tracker.medications[med_id]
        IN /\ hist[1].call.ret = "True"
           /\ ArchiveFields \cap DOMAIN med = {}
           /\ med_id \in active_meds(tracker)

(* C6, for any known id: after archive_medication(id, reason) the
   medication is inactive with archived_date and archive_reason set and
   shows in the archived filter only; a following reactivate_medication(id)
   removes both fields, puts it back in the active filter and leaves its
   record equal to the record before the archive. *)
C6_AsClaimed ==
    /\ AfterArchive
    /\ AfterReactivate
    /\ JustReactivatedAfterArchive =>
            tracker.medications[hist[1].call.id] = hist[2].before[1]

(* C6, for a medication that was active: archive_medication then
   reactivate_medication have the effects above, and the record after the
   reactivate equals the record before the archive when the medication was
   active before the archive. *)
C6_ArchiveReactivateRoundTrip ==
    /\ AfterArchive
    /\ AfterReactivate
    /\ (JustReactivatedAfterArchive /\ hist[2].before[1].active) =>
            tracker.medications[hist[1].call.id] = hist[2].before[1]

(* An active medication was archived and then reactivated. *)
C6_Witness ==
    /\ JustReactivatedAfterArchive
    /\ hist[2].before[1].active
    /\ hist[1].call.ret = "True"

(* C7: from an empty store, under add, archive, reactivate and delete, a
   medication carries archived_date or archive_reason only while it is
   inactive; an active medication carries neither. *)
C7_ArchiveFieldsOnlyWhileInactive ==
    \A med_id \in DOMAIN tracker.medications :
        LET med == tracker.medications[med_id]
        IN (ArchiveFields \cap DOMAIN med # {}) => ~med.active

(* One medication is archived and carries the fields while another has
   just been reactivated. *)
C7_Witness ==
    /\ last.op = "reactivate_medication"
    /\ last.ret = "True"
    /\ \E med_id \in DOMAIN tracker.medications :
            /\ ~tracker.medications[med_id].active
            /\ ArchiveFields \subseteq DOMAIN tracker.medications[med_id]

----------------------------------------------------------------------------
(* Severity range and the per-medication aggregate (Spec) *)

(* C9: every entry of side_effects has an integer severity between 1 and 5,
   whatever arguments log_side_effect was called with. *)
C9_SeverityInRange ==
    \A i \in DOMAIN tracker.side_effects :
        tracker.side_effects[i].severity \in SeverityOptions

(* C10: the per-medication aggregate has exactly one group for each
   distinct med_id of side_effects, and the group a med_id falls in counts
   and averages the entries of that med_id alone. *)
C10_AggregateGroupsById ==
    LET side_effects == tracker.side_effects
        med_ids == {side_effects[i].med_id : i \in DOMAIN side_effects}
        groups == med_analysis(tracker)
        of_id(med_id) ==
            LET hit(se) == se.med_id = med_id
                hits == SelectSeq(side_effects, hit)
            IN [i \in DOMAIN hits |-> hits[i].severity]
    IN /\ Cardinality(DOMAIN groups) = Cardinality(med_ids)
       /\ \A med_id \in med_ids :
            LET group == groups[med_name_of(tracker, med_id)]
            IN /\ group.total_effects = Len(of_id(med_id))
               /\ group.avg_severity.num * Len(of_id(med_id))
                    = sum(of_id(med_id)) * group.avg_severity.den

----------------------------------------------------------------------------
(* Properties of the pages (SpecPage) *)

Flags(med_id) == {confirm_delete(med_id), confirm_delete_arch(med_id)}

(* A run called delete_medication *)
DeleteCalled == last' # last /\ last'.op = "delete_medication"

(* C11: deleting through the page takes two steps: delete_medication(id)
   is called only in a run that found the confirmation flag of the tab
   listing the medication, set by an earlier Delete press; a run that sets
   a flag (Delete) or removes one without that call (Cancel) changes no
   collection of the store and does not write the file. *)
C11_DeleteIsTwoStep ==
    [][/\ DeleteCalled =>
            /\ last'.id \in DOMAIN tracker.medications
            /\ IF tracker.medications[last'.id].active
               THEN confirm_delete(last'.id) \in session_state
               ELSE confirm_delete_arch(last'.id) \in session_state
       /\ (session_state' # session_state /\ ~DeleteCalled) =>
            /\ tracker' = tracker
            /\ disk' = disk]_vars

(* A confirmed delete has completed while the flag of another medication
   is still pending. *)
C11_Witness ==
    /\ last.op = "delete_medication"
    /\ last.ret = "True"
    /\ session_state # {}
    /\ \A key \in session_state : key[2] \in DOMAIN tracker.medications

(* C12: both confirmed deletes of the page purge the side effects of the
   medication: after the run neither the in-memory side_effects nor the
   file holds an entry of the deleted id, and the entries of the other
   medications are kept, in order. *)
C12_ConfirmedDeletePurges ==
    [][DeleteCalled =>
        LET kept == without_med(tracker.side_effects, last'.id)
        IN /\ last'.ret = "True"
           /\ last'.id \notin DOMAIN tracker'.medications
           /\ tracker'.side_effects = kept
           /\ disk'.kind = "json"
           /\ json_load(disk'.text).side_effects = kept
           /\ \A i \in DOMAIN kept : kept[i].med_id # last'.id]_vars

(* Medication 0 of the earlier document was deleted: its side effect is
   gone, the one of another medication is still there. *)
C12_Witness ==
    /\ last.op = "delete_medication"
    /\ last.ret = "True"
    /\ last.id = 0
    /\ tracker.side_effects # << >>
    /\ \A i \in DOMAIN tracker.side_effects :
            tracker.side_effects[i].med_id \in DOMAIN tracker.medications

(* C14: in the Side Effects form every active medication has its own
   option, and the option of a medication gives back the id of that
   medication: the option-to-id map is one-to-one over the active
   medications, also when two of them have the same name and dosage. *)
C14_OptionPerActiveMedication ==
    \A med_id \in active_meds(tracker) :
        med_options_map(tracker)[option_label(tracker.medications[med_id])]
            = med_id

(* C15: after a medication was deleted through either Confirm, session
   state holds neither confirm_delete_<id> nor confirm_delete_arch_<id>
   for it, whatever Delete, Cancel, Archive, Reactivate and Confirm
   presses led there. *)
C15_NoFlagOfDeletedMedication ==
    (last.op = "delete_medication" /\ last.ret = "True") =>
        Flags(last.id) \cap session_state = {}

(* The Analytics branch of the script *)
AnalyticsBranchRuns == page = "Analytics"

(* C16: in every run the selected page is Dashboard, Add Medication,
   Manage Medications or Side Effects, so the Analytics branch never runs;
   the run that finds quick_action removes it and leaves the page on Side
   Effects, on Dashboard or where it was. *)
C16_AnalyticsNeverSelected ==
    /\ [](/\ page \in {"Dashboard", "Add Medication", "Manage Medications",
                       "Side Effects"}
          /\ ~AnalyticsBranchRuns)
    /\ [][quick_action # << >> =>
            /\ quick_action' = << >>
            /\ page' \in {"Side Effects", "Dashboard", page}]_vars

(* Report Side Effect was pressed on the Dashboard: the flag is set and the
   next run is the one that reads it. *)
C16_Witness ==
    /\ quick_action = <<"side_effect">>
    /\ page = "Dashboard"

----------------------------------------------------------------------------
(* Properties of two sessions (SpecSessions) *)

(* C13: the last write wins.  A step in which one session changes its
   tracker leaves the file equal to the document of that session's tracker
   alone, and brings no medication of the file or of the other session into
   it: what the other session had saved and this one had not loaded is not
   in the file afterwards. *)
C13_LastWriteWins ==
    [][/\ tracker' # tracker =>
            /\ disk' = save_data(tracker')
            /\ DOMAIN tracker'.medications
                    \subseteq DOMAIN tracker.medications \cup {uuid4}
       /\ peer' # peer =>
            /\ disk' = save_data(peer')
            /\ DOMAIN peer'.medications
                    \subseteq DOMAIN peer.medications \cup {uuid4}]_vars

(* A lost update: the other session added and saved medication m, this
   session then added one of its own (a later uuid), and the file is this
   session's document, without m. *)
C13_Witness ==
    \E m \in DOMAIN peer.medications :
        /\ m >= 1
        /\ last.op = "add_medication"
        /\ last.id > m
        /\ disk = save_data(tracker)
        /\ m \notin DOMAIN load_data(disk).medications

====
